---------------------------- MODULE Spec2Model ----------------------------
(***************************************************************************)
(* A model of the SpaceThreading simulation: one worker thread per System  *)
(* (system_thread_func / system_run), the mutex-protected Resource ledger  *)
(* (system_convert / system_store_resources), the priority-ordered         *)
(* EventQueue (event_queue_push / event_queue_pop), the Manager's control   *)
(* loop (manager_run) and main's teardown (manager_clean).                 *)
(*                                                                         *)
(* Every access to shared memory (a mutex, a Resource's amount, the queue, *)
(* a System's status) is a step of its own; computation on a thread's own  *)
(* locals is folded into the step that precedes it.  malloc is assumed to  *)
(* succeed (the exit(EXIT_FAILURE) paths are not modelled).  The plain int *)
(* System.status is read and written without synchronisation; each such    *)
(* access is one step that sees the value last written.                    *)
(***************************************************************************)
EXTENDS Integers, Sequences, FiniteSets, TLC

(***************************************************************************)
(* Bounds of the model.                                                    *)
(***************************************************************************)
\* The longest list the queue grows to in Spec while the Systems run: a
\* System reports an event only when there is room for it.  (Each System
\* may add one more in the iteration it is told to TERMINATE in.)
MaxQueue == 1
\* The longest list the queue grows to in SpecQueue.
MaxQueueAlone == 3
\* Priorities 1..MaxPrio are pushed by the queue's clients in SpecQueue.
MaxPrio == 3

(***************************************************************************)
(* Names from defs.h.                                                      *)
(***************************************************************************)
STATUS_OK == "STATUS_OK"
STATUS_EMPTY == "STATUS_EMPTY"
STATUS_INSUFFICIENT == "STATUS_INSUFFICIENT"
STATUS_CAPACITY == "STATUS_CAPACITY"
STANDARD == "STANDARD"
SLOW == "SLOW"
FAST == "FAST"
TERMINATE == "TERMINATE"
PRIORITY_LOW == 1
PRIORITY_HIGH == 3

\* A null Resource pointer.
NULL == "NULL"
\* An unlocked pthread mutex; a locked one holds the id of its owner.
UNLOCKED == "unlocked"
\* The thread that runs main and manager_run.
MANAGER == "manager"
\* A mutex after pthread_mutex_destroy.
DESTROYED == "destroyed"
\* main has not returned yet.
RUNNING == "running"

(***************************************************************************)
(* The data load_data builds, scaled down.  Each configuration names the   *)
(* Resources of the Resource array (in order), their capacities, how many  *)
(* Systems were added to the System array and what each consumes and       *)
(* produces.                                                               *)
(***************************************************************************)
system_array == <<"sys0", "sys1", "sys2", "sys3">>

Systems == {system_array[i] : i \in 1..Len(system_array)}

ResourceAmount(r, a) == IF r = NULL THEN [resource |-> NULL, amount |-> 0]
                        ELSE [resource |-> r, amount |-> a]

\* The System array has room for four Systems, as many as load_data adds;
\* a configuration with system_array_size = n uses the first n slots, and
\* the others hold no System (no worker is ever created for them).
\* Energy -> Oxygen -> crew: a producer and a consumer of one Resource.
ConfigChain ==
    [resource_array |-> <<"Energy", "Oxygen">>,
     max_capacity   |-> [Energy |-> 2, Oxygen |-> 2],
     consumed       |-> [sys0 |-> ResourceAmount("Energy", 2),
                         sys1 |-> ResourceAmount("Oxygen", 1),
                         sys2 |-> ResourceAmount(NULL, 0),
                         sys3 |-> ResourceAmount(NULL, 0)],
     produced       |-> [sys0 |-> ResourceAmount("Oxygen", 2),
                         sys1 |-> ResourceAmount(NULL, 0),
                         sys2 |-> ResourceAmount(NULL, 0),
                         sys3 |-> ResourceAmount(NULL, 0)],
     system_array_size |-> 2]

\* Two consumers of Fuel that both produce Energy.
ConfigShared ==
    [resource_array |-> <<"Fuel", "Energy">>,
     max_capacity   |-> [Fuel |-> 3, Energy |-> 2],
     consumed       |-> [sys0 |-> ResourceAmount("Fuel", 2),
                         sys1 |-> ResourceAmount("Fuel", 1),
                         sys2 |-> ResourceAmount(NULL, 0),
                         sys3 |-> ResourceAmount(NULL, 0)],
     produced       |-> [sys0 |-> ResourceAmount("Energy", 1),
                         sys1 |-> ResourceAmount("Energy", 2),
                         sys2 |-> ResourceAmount(NULL, 0),
                         sys3 |-> ResourceAmount(NULL, 0)],
     system_array_size |-> 2]

\* A System that consumes nothing, and one that produces nothing.
ConfigSource ==
    [resource_array |-> <<"Oxygen">>,
     max_capacity   |-> [Oxygen |-> 1],
     consumed       |-> [sys0 |-> ResourceAmount(NULL, 0),
                         sys1 |-> ResourceAmount("Oxygen", 1),
                         sys2 |-> ResourceAmount(NULL, 0),
                         sys3 |-> ResourceAmount(NULL, 0)],
     produced       |-> [sys0 |-> ResourceAmount("Oxygen", 1),
                         sys1 |-> ResourceAmount(NULL, 0),
                         sys2 |-> ResourceAmount(NULL, 0),
                         sys3 |-> ResourceAmount(NULL, 0)],
     system_array_size |-> 2]

\* A Resource and no System: system_array_add was never called.
ConfigEmpty ==
    [resource_array |-> <<"Oxygen">>,
     max_capacity   |-> [Oxygen |-> 1],
     consumed       |-> [sys0 |-> ResourceAmount(NULL, 0),
                         sys1 |-> ResourceAmount(NULL, 0),
                         sys2 |-> ResourceAmount(NULL, 0),
                         sys3 |-> ResourceAmount(NULL, 0)],
     produced       |-> [sys0 |-> ResourceAmount(NULL, 0),
                         sys1 |-> ResourceAmount(NULL, 0),
                         sys2 |-> ResourceAmount(NULL, 0),
                         sys3 |-> ResourceAmount(NULL, 0)],
     system_array_size |-> 0]

\* main.c lines 47-109, scaled down: Fuel full, Oxygen and Energy partly
\* filled, Distance empty; Propulsion (Fuel -> Distance), Life Support
\* (Energy -> Oxygen), Crew (Oxygen -> nothing) and Generator (Fuel ->
\* Energy), in the order of system_array_add, each consuming and producing
\* one unit.  As in load_data, Fuel is a multiple of what each of its
\* consumers takes and Distance has room for all that Propulsion can
\* produce from the Fuel.
ConfigShipped ==
    [resource_array |-> <<"Fuel", "Oxygen", "Energy", "Distance">>,
     max_capacity   |-> [Fuel |-> 2, Oxygen |-> 2, Energy |-> 2, Distance |-> 2],
     consumed       |-> [sys0 |-> ResourceAmount("Fuel", 1),
                         sys1 |-> ResourceAmount("Energy", 1),
                         sys2 |-> ResourceAmount("Oxygen", 1),
                         sys3 |-> ResourceAmount("Fuel", 1)],
     produced       |-> [sys0 |-> ResourceAmount("Distance", 1),
                         sys1 |-> ResourceAmount("Oxygen", 1),
                         sys2 |-> ResourceAmount(NULL, 0),
                         sys3 |-> ResourceAmount("Energy", 1)],
     system_array_size |-> 4]

\* main.c lines 49-58: the initial amounts of load_data, scaled down.
ShippedAmount == [Fuel |-> 2, Oxygen |-> 1, Energy |-> 1, Distance |-> 0]

Configs == {ConfigChain, ConfigShared, ConfigSource, ConfigEmpty}

\* The largest capacity of any configuration.
MaxAmount ==
    CHOOSE m \in 0..10 :
        /\ \A cfg \in Configs : \A r \in DOMAIN cfg.max_capacity :
               cfg.max_capacity[r] <= m
        /\ \E cfg \in Configs : \E r \in DOMAIN cfg.max_capacity :
               cfg.max_capacity[r] = m

VARIABLES
    \* configuration (set by load_data, constant afterwards)
    resource_array,     \* Manager.resource_array: the Resources, in order
    max_capacity,       \* Resource.max_capacity
    consumed,           \* System.consumed
    produced,           \* System.produced
    system_array_size,  \* Manager.system_array.size
    \* Resources
    amount,             \* Resource.amount
    res_mutex,          \* Resource.mutex: UNLOCKED or the owner
    \* EventQueue
    head,               \* the linked list from queue->head, as a sequence
    size,               \* queue->size
    queue_mutex,        \* queue->mutex: UNLOCKED or the owner
    \* Systems and their workers
    status,             \* System.status
    amount_stored,      \* System.amount_stored
    pc,                 \* where each worker is
    result_status,      \* system_run's local result_status
    sys_event,          \* system_run's local event
    \* Manager
    simulation_running, \* Manager.simulation_running
    mpc,                \* where the manager thread is
    mi,                 \* the loop index i of manager_run / display
    event,              \* manager_run's local event
    pop_result,         \* what the last event_queue_pop returned
    \* main
    destroyed,          \* the collections manager_clean has freed
    exit_status,        \* what main returned, RUNNING before it has
    \* history
    pending,            \* completed pushes minus pops that returned an event
    ledger,             \* per Resource: initial + produced - consumed
    grace               \* per System: the iteration in flight when its
                        \* status was set to TERMINATE is still running

cfgvars == <<resource_array, max_capacity, consumed, produced,
             system_array_size>>
resvars == <<amount, res_mutex>>
queuevars == <<head, size, queue_mutex>>
sysvars == <<status, amount_stored, pc, result_status, sys_event>>
mgrvars == <<simulation_running, mpc, mi, event, pop_result>>
mainvars == <<destroyed, exit_status>>
histvars == <<pending, ledger, grace>>
vars == <<cfgvars, resvars, queuevars, sysvars, mgrvars, mainvars, histvars>>

Resources == {resource_array[i] : i \in 1..Len(resource_array)}

\* The Systems of the System array: those a worker was created for.
Launched == {system_array[i] : i \in 1..system_array_size}

\* An Event before event_init has filled it.
NoEvent == [system |-> NULL, resource |-> NULL, status |-> STATUS_OK,
            priority |-> 0, amount |-> 0, seq |-> 0]


(***************************************************************************)
(* The initial state: main has run manager_init and load_data.             *)
(***************************************************************************)
InitOf(cfg) ==
    /\ resource_array = cfg.resource_array
    /\ max_capacity = cfg.max_capacity
    /\ consumed = cfg.consumed
    /\ produced = cfg.produced
    /\ system_array_size = cfg.system_array_size
    /\ amount \in {a \in [DOMAIN cfg.max_capacity -> 0..MaxAmount] :
                      \A r \in DOMAIN a : a[r] <= cfg.max_capacity[r]}
    /\ res_mutex = [r \in Resources |-> UNLOCKED]
    /\ head = <<>>
    /\ size = 0
    /\ queue_mutex = UNLOCKED
    /\ status = [s \in Systems |-> STANDARD]
    /\ amount_stored = [s \in Systems |-> 0]
    /\ result_status = [s \in Systems |-> STATUS_OK]
    /\ sys_event = [s \in Systems |-> NoEvent]
    /\ simulation_running = TRUE
    /\ mi = 1
    /\ event = NoEvent
    /\ pop_result = 0
    /\ destroyed = {}
    /\ exit_status = RUNNING
    /\ pending = 0
    /\ ledger = amount
    /\ grace = [s \in Systems |-> FALSE]

Init ==
    /\ \E cfg \in Configs : InitOf(cfg)
    /\ pc = [s \in Systems |-> "not_started"]
    /\ mpc = "start"

(***************************************************************************)
(* EventQueue: event_queue_push.                                           *)
(***************************************************************************)
\* Lines 90-93: from node cur, walk while the next node's priority is at
\* least the new one's; the node the loop stops at.
RECURSIVE PushWalk(_, _, _)
PushWalkBefore(h, cur, priority) ==
    IF cur < Len(h) /\ h[cur + 1].priority > priority
    THEN PushWalk(h, cur + 1, priority)
    ELSE cur

PushWalk(h, cur, priority) ==
    IF cur < Len(h) /\ h[cur + 1].priority >= priority
    THEN PushWalk(h, cur + 1, priority)
    ELSE cur

\* Lines 86-96: the list with new_node linked in.
PushLinkFront(h, new_node) == <<new_node>> \o h

PushLink(h, new_node) ==
    IF h = <<>> \/ h[1].priority < new_node.priority
    THEN <<new_node>> \o h
    ELSE LET current == PushWalk(h, 1, new_node.priority)
         IN  SubSeq(h, 1, current) \o <<new_node>>
                 \o SubSeq(h, current + 1, Len(h))

\* Line 75.
event_queue_push_lock(s) ==
    /\ pc[s] = "push_lock"
    /\ queue_mutex = UNLOCKED
    /\ queue_mutex' = s
    /\ pc' = [pc EXCEPT ![s] = "push_insert"]
    /\ UNCHANGED <<cfgvars, mainvars, resvars, head, size, status, amount_stored,
                   result_status, sys_event, mgrvars, histvars>>

\* Lines 76-96.  seq records the order of arrival among the nodes linked.
event_queue_push_insert(s) ==
    /\ pc[s] = "push_insert"
    /\ head' = PushLink(head, [sys_event[s] EXCEPT !.seq = Len(head) + 1])
    /\ pc' = [pc EXCEPT ![s] = "push_size"]
    /\ UNCHANGED <<cfgvars, mainvars, resvars, size, queue_mutex, status, amount_stored,
                   result_status, sys_event, mgrvars, histvars>>

\* Line 98.
event_queue_push_size(s) ==
    /\ pc[s] = "push_size"
    /\ size' = size + 1
    /\ pc' = [pc EXCEPT ![s] = "push_unlock"]
    /\ UNCHANGED <<cfgvars, mainvars, resvars, head, queue_mutex, status, amount_stored,
                   result_status, sys_event, mgrvars, histvars>>

\* Lines 99-100: the push is complete.
event_queue_push_unlock(s) ==
    /\ pc[s] = "push_unlock"
    /\ queue_mutex' = UNLOCKED
    /\ pending' = pending + 1
    /\ pc' = [pc EXCEPT ![s] = "wait"]
    /\ UNCHANGED <<cfgvars, mainvars, resvars, head, size, status, amount_stored,
                   result_status, sys_event, mgrvars, ledger, grace>>

(***************************************************************************)
(* EventQueue: event_queue_pop, called by the manager.                     *)
(***************************************************************************)
\* The arrival order of the nodes left, counted again from 1.
Renumber(h) ==
    [i \in 1..Len(h) |->
        [h[i] EXCEPT !.seq = Cardinality({j \in 1..Len(h) : h[j].seq <= h[i].seq})]]

\* Line 114.
event_queue_pop_lock ==
    /\ mpc = "pop_lock"
    /\ queue_mutex = UNLOCKED
    /\ queue_mutex' = MANAGER
    /\ mpc' = "pop_head"
    /\ UNCHANGED <<cfgvars, mainvars, resvars, head, size, sysvars, simulation_running,
                   mi, event, pop_result, histvars>>

\* Lines 115-118: the queue is empty.
PopEmptyKeepsLock == MANAGER

PopEmptyUnlock == UNLOCKED

event_queue_pop_empty ==
    /\ mpc = "pop_head"
    /\ head = <<>>
    /\ queue_mutex' = PopEmptyUnlock
    /\ pop_result' = 0
    /\ mpc' = "display"
    /\ UNCHANGED <<cfgvars, mainvars, resvars, head, size, sysvars, simulation_running,
                   mi, event, histvars>>

\* Lines 120-124: copy the head's event out and unlink the head.
event_queue_pop_peek ==
    /\ mpc = "pop_head"
    /\ head # <<>>
    /\ event' = head[1]
    /\ mpc' = "pop_size"
    /\ UNCHANGED <<cfgvars, mainvars, resvars, queuevars, sysvars,
                   simulation_running, mi, pop_result, histvars>>

event_queue_pop_remove ==
    /\ mpc = "pop_head"
    /\ head # <<>>
    /\ event' = head[1]
    /\ head' = Tail(head)
    /\ mpc' = "pop_size"
    /\ UNCHANGED <<cfgvars, mainvars, resvars, size, queue_mutex, sysvars,
                   simulation_running, mi, pop_result, histvars>>

\* Line 125.
event_queue_pop_size_kept ==
    /\ mpc = "pop_size"
    /\ mpc' = "pop_unlock"
    /\ UNCHANGED <<cfgvars, mainvars, resvars, queuevars, sysvars, simulation_running,
                   mi, event, pop_result, histvars>>

event_queue_pop_size ==
    /\ mpc = "pop_size"
    /\ size' = size - 1
    /\ mpc' = "pop_unlock"
    /\ UNCHANGED <<cfgvars, mainvars, resvars, head, queue_mutex, sysvars,
                   simulation_running, mi, event, pop_result, histvars>>

\* Lines 127-128: the pop returns 1.
event_queue_pop_unlock ==
    /\ mpc = "pop_unlock"
    /\ queue_mutex' = UNLOCKED
    /\ pop_result' = 1
    /\ pending' = pending - 1
    /\ head' = Renumber(head)
    /\ event' = [event EXCEPT !.seq = 0]
    /\ mpc' = "handle"
    /\ UNCHANGED <<cfgvars, mainvars, resvars, size, sysvars, simulation_running, mi,
                   ledger, grace>>


(***************************************************************************)
(* The worker of a System: system_thread_func, system_run, system_convert, *)
(* system_simulate_process_time and system_store_resources.                *)
(***************************************************************************)
\* A worker inside a call of system_run.
InFlight(p) == p \notin {"not_started", "loop", "done"}

\* The worker is back at the top of system_thread_func's loop.
EndIteration(s) == grace' = [grace EXCEPT ![s] = FALSE]

\* manager.c line 107: the loop condition.
LoopConditionIgnoresStatus(s) == TRUE

LoopCondition(s) == status[s] # TERMINATE

\* system.c line 190, at the call of system_store_resources in line 98:
\* where the worker goes with stored units in its buffer.
StoreEntry(s, stored) ==
    IF produced[s].resource = NULL \/ stored = 0
    THEN [pc |-> "loop", amount_stored |-> 0]
    ELSE [pc |-> "store_lock", amount_stored |-> stored]

\* manager.c lines 107-111 and system.c lines 83-85, 96-98, 120-124: read
\* the status; leave the loop, or call system_run, which converts when the
\* buffer is empty and otherwise stores.
system_thread_func_no_null_check(s) ==
    /\ pc[s] = "loop"
    /\ IF ~LoopCondition(s)
       THEN /\ pc' = [pc EXCEPT ![s] = "done"]
            /\ UNCHANGED <<amount_stored, result_status>>
       ELSE IF amount_stored[s] = 0
       THEN /\ pc' = [pc EXCEPT ![s] = "convert_lock"]
            /\ result_status' = [result_status EXCEPT ![s] = STATUS_OK]
            /\ UNCHANGED amount_stored
       ELSE LET e == StoreEntry(s, amount_stored[s])
            IN  /\ pc' = [pc EXCEPT ![s] = e.pc]
                /\ amount_stored' = [amount_stored EXCEPT ![s] = e.amount_stored]
                /\ UNCHANGED result_status
    /\ UNCHANGED <<cfgvars, mainvars, resvars, queuevars, status, sys_event, mgrvars,
                   histvars>>

system_thread_func_always_converts(s) ==
    /\ pc[s] = "loop"
    /\ IF ~LoopCondition(s)
       THEN /\ pc' = [pc EXCEPT ![s] = "done"]
            /\ UNCHANGED <<amount_stored, result_status>>
       ELSE /\ pc' = [pc EXCEPT ![s] =
                        IF consumed[s].resource = NULL
                        THEN "process_time" ELSE "convert_lock"]
            /\ result_status' = [result_status EXCEPT ![s] = STATUS_OK]
            /\ UNCHANGED amount_stored
    /\ UNCHANGED <<cfgvars, mainvars, resvars, queuevars, status, sys_event, mgrvars,
                   histvars>>

system_thread_func(s) ==
    /\ pc[s] = "loop"
    /\ IF ~LoopCondition(s)
       THEN /\ pc' = [pc EXCEPT ![s] = "done"]
            /\ UNCHANGED <<amount_stored, result_status>>
       ELSE IF amount_stored[s] = 0
       THEN /\ pc' = [pc EXCEPT ![s] =
                        IF consumed[s].resource = NULL
                        THEN "process_time" ELSE "convert_lock"]
            /\ result_status' = [result_status EXCEPT ![s] = STATUS_OK]
            /\ UNCHANGED amount_stored
       ELSE LET e == StoreEntry(s, amount_stored[s])
            IN  /\ pc' = [pc EXCEPT ![s] = e.pc]
                /\ amount_stored' = [amount_stored EXCEPT ![s] = e.amount_stored]
                /\ UNCHANGED result_status
    /\ UNCHANGED <<cfgvars, mainvars, resvars, queuevars, status, sys_event, mgrvars,
                   histvars>>

\* system.c line 126.
system_convert_nolock(s) ==
    /\ pc[s] = "convert_lock"
    /\ pc' = [pc EXCEPT ![s] = "convert_cs"]
    /\ UNCHANGED <<cfgvars, mainvars, resvars, queuevars, status, amount_stored,
                   result_status, sys_event, mgrvars, histvars>>

system_convert_lock(s) ==
    /\ pc[s] = "convert_lock"
    /\ res_mutex[consumed[s].resource] = UNLOCKED
    /\ res_mutex' = [res_mutex EXCEPT ![consumed[s].resource] = s]
    /\ pc' = [pc EXCEPT ![s] = "convert_cs"]
    /\ UNCHANGED <<cfgvars, mainvars, amount, queuevars, status, amount_stored,
                   result_status, sys_event, mgrvars, histvars>>

\* system.c lines 127-132: the consume step on a Resource holding cur.
ConsumeNeverEmpty(cur, amount_consumed) ==
    IF cur >= amount_consumed
    THEN [amount |-> cur - amount_consumed, status |-> STATUS_OK]
    ELSE [amount |-> cur, status |-> STATUS_INSUFFICIENT]

Consume(cur, amount_consumed) ==
    IF cur >= amount_consumed
    THEN [amount |-> cur - amount_consumed, status |-> STATUS_OK]
    ELSE [amount |-> cur,
          status |-> IF cur = 0 THEN STATUS_EMPTY ELSE STATUS_INSUFFICIENT]

system_convert_cs(s) ==
    /\ pc[s] = "convert_cs"
    /\ LET r == consumed[s].resource
           c == Consume(amount[r], consumed[s].amount)
       IN  /\ amount' = [amount EXCEPT ![r] = c.amount]
           /\ result_status' = [result_status EXCEPT ![s] = c.status]
           /\ ledger' = IF c.status = STATUS_OK
                        THEN [ledger EXCEPT ![r] = @ - consumed[s].amount]
                        ELSE ledger
    /\ pc' = [pc EXCEPT ![s] = "convert_unlock"]
    /\ UNCHANGED <<cfgvars, mainvars, res_mutex, queuevars, status, amount_stored,
                   sys_event, mgrvars, pending, grace>>

\* system.c lines 133-136 and 85-87: unlock; on STATUS_OK go on to the
\* processing time, otherwise back in system_run to report the failure.
system_convert_unlock_on_success(s) ==
    /\ pc[s] = "convert_unlock"
    /\ res_mutex' = IF result_status[s] = STATUS_OK
                    THEN [res_mutex EXCEPT ![consumed[s].resource] = UNLOCKED]
                    ELSE res_mutex
    /\ pc' = [pc EXCEPT ![s] =
                IF result_status[s] = STATUS_OK
                THEN "process_time" ELSE "event_init_high"]
    /\ UNCHANGED <<cfgvars, mainvars, amount, queuevars, status, amount_stored,
                   result_status, sys_event, mgrvars, histvars>>

system_convert_unlock(s) ==
    /\ pc[s] = "convert_unlock"
    /\ res_mutex' = [res_mutex EXCEPT ![consumed[s].resource] = UNLOCKED]
    /\ pc' = [pc EXCEPT ![s] =
                IF result_status[s] = STATUS_OK
                THEN "process_time" ELSE "event_init_high"]
    /\ UNCHANGED <<cfgvars, mainvars, amount, queuevars, status, amount_stored,
                   result_status, sys_event, mgrvars, histvars>>

\* system.c lines 157-173: read the status for the sleep's length, and
\* sleep.  The length of a sleep is not modelled.
system_simulate_process_time(s) ==
    /\ pc[s] = "process_time"
    /\ status[s] \in {STANDARD, SLOW, FAST, TERMINATE}
    /\ pc' = [pc EXCEPT ![s] = "process_sleep"]
    /\ UNCHANGED <<cfgvars, mainvars, resvars, queuevars, status, amount_stored,
                   result_status, sys_event, mgrvars, histvars>>

\* system.c lines 139-143: what a successful conversion leaves in the buffer.
Produce(s, stored) ==
    IF produced[s].resource # NULL
    THEN stored + produced[s].amount
    ELSE 0

\* system.c lines 173, 139-146, 87, 96-98: wake up, put the product in the
\* buffer, return STATUS_OK to system_run, which stores a filled buffer.
system_convert_produce(s) ==
    /\ pc[s] = "process_sleep"
    /\ LET stored == Produce(s, amount_stored[s])
           e == IF stored > 0 THEN StoreEntry(s, stored)
                ELSE [pc |-> "loop", amount_stored |-> stored]
       IN  /\ amount_stored' = [amount_stored EXCEPT ![s] = e.amount_stored]
           /\ pc' = [pc EXCEPT ![s] = e.pc]
           /\ ledger' = IF produced[s].resource # NULL
                        THEN [ledger EXCEPT ![produced[s].resource] =
                                 @ + produced[s].amount]
                        ELSE ledger
           /\ IF e.pc = "loop" THEN EndIteration(s) ELSE UNCHANGED grace
    /\ UNCHANGED <<cfgvars, mainvars, resvars, queuevars, status, result_status,
                   sys_event, mgrvars, pending>>

\* system.c line 195.
system_store_lock(s) ==
    /\ pc[s] = "store_lock"
    /\ res_mutex[produced[s].resource] = UNLOCKED
    /\ res_mutex' = [res_mutex EXCEPT ![produced[s].resource] = s]
    /\ pc' = [pc EXCEPT ![s] = "store_cs"]
    /\ UNCHANGED <<cfgvars, mainvars, amount, queuevars, status, amount_stored,
                   result_status, sys_event, mgrvars, histvars>>

\* system.c lines 196-205: the store step of amount_to_store units into a
\* Resource holding cur of max.
StoreAll(cur, max, amount_to_store) ==
    [amount |-> cur + amount_to_store, amount_stored |-> 0]

StoreDropsLeftover(cur, max, amount_to_store) ==
    LET available_space == max - cur
    IN  IF available_space >= amount_to_store
        THEN [amount |-> cur + amount_to_store, amount_stored |-> 0]
        ELSE [amount |-> cur + available_space, amount_stored |-> 0]

StoreKeepsBuffer(cur, max, amount_to_store) ==
    LET available_space == max - cur
    IN  IF available_space >= amount_to_store
        THEN [amount |-> cur + amount_to_store, amount_stored |-> 0]
        ELSE [amount |-> cur + available_space,
              amount_stored |-> amount_to_store]

StoreLeftoverReversed(cur, max, amount_to_store) ==
    LET available_space == max - cur
    IN  IF available_space >= amount_to_store
        THEN [amount |-> cur + amount_to_store, amount_stored |-> 0]
        ELSE IF available_space > 0
        THEN [amount |-> cur + available_space,
              amount_stored |-> available_space - amount_to_store]
        ELSE [amount |-> cur, amount_stored |-> amount_to_store]

Store(cur, max, amount_to_store) ==
    LET available_space == max - cur
    IN  IF available_space >= amount_to_store
        THEN [amount |-> cur + amount_to_store, amount_stored |-> 0]
        ELSE IF available_space > 0
        THEN [amount |-> cur + available_space,
              amount_stored |-> amount_to_store - available_space]
        ELSE [amount |-> cur, amount_stored |-> amount_to_store]

system_store_cs(s) ==
    /\ pc[s] = "store_cs"
    /\ LET r == produced[s].resource
           st == Store(amount[r], max_capacity[r], amount_stored[s])
       IN  /\ amount' = [amount EXCEPT ![r] = st.amount]
           /\ amount_stored' = [amount_stored EXCEPT ![s] = st.amount_stored]
    /\ pc' = [pc EXCEPT ![s] = "store_unlock"]
    /\ UNCHANGED <<cfgvars, mainvars, res_mutex, queuevars, status, result_status,
                   sys_event, mgrvars, histvars>>

\* system.c lines 206-208 and 98-100: unlock and return STATUS_OK when the
\* buffer is empty, STATUS_CAPACITY otherwise.
system_store_unlock_when_stored(s) ==
    /\ pc[s] = "store_unlock"
    /\ IF amount_stored[s] = 0
       THEN /\ res_mutex' = [res_mutex EXCEPT ![produced[s].resource] = UNLOCKED]
            /\ result_status' = [result_status EXCEPT ![s] = STATUS_OK]
            /\ pc' = [pc EXCEPT ![s] = "loop"]
            /\ EndIteration(s)
       ELSE /\ result_status' = [result_status EXCEPT ![s] = STATUS_CAPACITY]
            /\ pc' = [pc EXCEPT ![s] = "event_init_low"]
            /\ UNCHANGED <<grace, res_mutex>>
    /\ UNCHANGED <<cfgvars, mainvars, amount, queuevars, status, amount_stored,
                   sys_event, mgrvars, pending, ledger>>

system_store_unlock(s) ==
    /\ pc[s] = "store_unlock"
    /\ res_mutex' = [res_mutex EXCEPT ![produced[s].resource] = UNLOCKED]
    /\ IF amount_stored[s] = 0
       THEN /\ result_status' = [result_status EXCEPT ![s] = STATUS_OK]
            /\ pc' = [pc EXCEPT ![s] = "loop"]
            /\ EndIteration(s)
       ELSE /\ result_status' = [result_status EXCEPT ![s] = STATUS_CAPACITY]
            /\ pc' = [pc EXCEPT ![s] = "event_init_low"]
            /\ UNCHANGED grace
    /\ UNCHANGED <<cfgvars, mainvars, amount, queuevars, status, amount_stored,
                   sys_event, mgrvars, pending, ledger>>

\* The model's bound on the queue: the nodes linked and those about to be
\* are fewer than limit.  The iteration in flight when the status of s was
\* set to TERMINATE is the last one of s and is not held back.
Room(s, limit) ==
    \/ status[s] = TERMINATE
    \/ Len(head) + Cardinality({t \in Systems :
                                   pc[t] \in {"push_lock", "push_insert"}})
           < limit

\* event.c lines 17-23.
event_init(system, resource, st, priority, am) ==
    [system |-> system, resource |-> resource, status |-> st,
     priority |-> priority, amount |-> am, seq |-> 0]

\* system.c lines 89-90: the consumed Resource's amount is read without its
\* mutex.
system_run_event_high(s) ==
    /\ pc[s] = "event_init_high"
    /\ Room(s, MaxQueue)
    /\ sys_event' = [sys_event EXCEPT ![s] =
            event_init(s, consumed[s].resource, result_status[s],
                       PRIORITY_HIGH, amount[consumed[s].resource])]
    /\ pc' = [pc EXCEPT ![s] = "push_lock"]
    /\ UNCHANGED <<cfgvars, mainvars, resvars, queuevars, status, amount_stored,
                   result_status, mgrvars, histvars>>

\* system.c lines 101-102: the produced Resource's amount is read without
\* its mutex.
system_run_event_low(s) ==
    /\ pc[s] = "event_init_low"
    /\ Room(s, MaxQueue)
    /\ sys_event' = [sys_event EXCEPT ![s] =
            event_init(s, produced[s].resource, result_status[s],
                       PRIORITY_LOW, amount[produced[s].resource])]
    /\ pc' = [pc EXCEPT ![s] = "push_lock"]
    /\ UNCHANGED <<cfgvars, mainvars, resvars, queuevars, status, amount_stored,
                   result_status, mgrvars, histvars>>

\* system.c lines 92-96 and 104-107: the pause after a push ends.  After a
\* failed conversion the buffer is tested (line 96) before system_run
\* returns.
system_run_wait(s) ==
    /\ pc[s] = "wait"
    /\ LET e == IF result_status[s] # STATUS_CAPACITY /\ amount_stored[s] > 0
                THEN StoreEntry(s, amount_stored[s])
                ELSE [pc |-> "loop", amount_stored |-> amount_stored[s]]
       IN  /\ pc' = [pc EXCEPT ![s] = e.pc]
           /\ amount_stored' = [amount_stored EXCEPT ![s] = e.amount_stored]
           /\ IF e.pc = "loop" THEN EndIteration(s) ELSE UNCHANGED grace
    /\ sys_event' = [sys_event EXCEPT ![s] = NoEvent]
    /\ result_status' = [result_status EXCEPT ![s] = STATUS_OK]
    /\ UNCHANGED <<cfgvars, mainvars, resvars, queuevars, status, mgrvars, pending,
                   ledger>>


(***************************************************************************)
(* The manager thread: manager_run and display_simulation_state.           *)
(***************************************************************************)
\* manager.c lines 43-50: with no Systems, report and return.
manager_run_validate ==
    /\ mpc = "start"
    /\ IF system_array_size = 0
       THEN /\ simulation_running' = FALSE
            /\ mpc' = "returned"
       ELSE /\ mpc' = "create"
            /\ UNCHANGED simulation_running
    /\ mi' = 1
    /\ UNCHANGED <<cfgvars, mainvars, resvars, queuevars, sysvars, event, pop_result,
                   histvars>>

\* manager.c lines 61, 65 and 92: the test of the control loop, which only
\* the manager's own writes decide; pop the first event, or leave the loop
\* and join.
WhileLoop == IF simulation_running THEN "pop_lock" ELSE "join"

\* manager.c lines 53-58: pthread_create for systems[i]; after the last
\* one, enter the control loop.
manager_run_create ==
    /\ mpc = "create"
    /\ pc' = [pc EXCEPT ![system_array[mi]] = "loop"]
    /\ IF mi < system_array_size
       THEN /\ mi' = mi + 1
            /\ UNCHANGED mpc
       ELSE /\ mi' = 1
            /\ mpc' = WhileLoop
    /\ UNCHANGED <<cfgvars, mainvars, resvars, queuevars, status, amount_stored,
                   result_status, sys_event, simulation_running, event,
                   pop_result, histvars>>

\* manager.c lines 73-74: the event reports a critical Resource as empty.
CriticalAnyResource(e) == e.status = STATUS_EMPTY

CriticalComparesPointers(e) == FALSE

Critical(e) ==
    e.status = STATUS_EMPTY /\ (e.resource = "Oxygen" \/ e.resource = "Fuel")

\* manager.c lines 66-76 and 65: print the event; on a critical one clear
\* simulation_running, otherwise pop again.
manager_run_handle_stop_only ==
    /\ mpc = "handle"
    /\ IF Critical(event)
       THEN /\ simulation_running' = FALSE
            /\ mpc' = "display"
       ELSE /\ mpc' = "pop_lock"
            /\ UNCHANGED simulation_running
    /\ mi' = 1
    /\ event' = NoEvent
    /\ UNCHANGED <<cfgvars, mainvars, resvars, queuevars, sysvars, pop_result, histvars>>

manager_run_handle ==
    /\ mpc = "handle"
    /\ IF Critical(event)
       THEN /\ simulation_running' = FALSE
            /\ mpc' = "terminate"
       ELSE /\ mpc' = "pop_lock"
            /\ UNCHANGED simulation_running
    /\ mi' = 1
    /\ event' = NoEvent
    /\ UNCHANGED <<cfgvars, mainvars, resvars, queuevars, sysvars, pop_result, histvars>>

\* manager.c lines 79-82: systems[i]->status = TERMINATE, then break.
manager_run_terminate_first ==
    /\ mpc = "terminate"
    /\ status' = [status EXCEPT ![system_array[1]] = TERMINATE]
    /\ grace' = [grace EXCEPT ![system_array[1]] =
                    IF status[system_array[1]] = TERMINATE THEN @
                    ELSE InFlight(pc[system_array[1]])]
    /\ mi' = 1
    /\ mpc' = "display"
    /\ UNCHANGED <<cfgvars, mainvars, resvars, queuevars, amount_stored, pc,
                   result_status, sys_event, simulation_running, event,
                   pop_result, pending, ledger>>

manager_run_terminate ==
    /\ mpc = "terminate"
    /\ status' = [status EXCEPT ![system_array[mi]] = TERMINATE]
    /\ grace' = [grace EXCEPT ![system_array[mi]] =
                    IF status[system_array[mi]] = TERMINATE THEN @
                    ELSE InFlight(pc[system_array[mi]])]
    /\ IF mi < system_array_size
       THEN /\ mi' = mi + 1
            /\ UNCHANGED mpc
       ELSE /\ mi' = 1
            /\ mpc' = "display"
    /\ UNCHANGED <<cfgvars, mainvars, resvars, queuevars, amount_stored, pc,
                   result_status, sys_event, simulation_running, event,
                   pop_result, pending, ledger>>

\* manager.c lines 123-126: less than display_interval has passed.
display_skip ==
    /\ mpc = "display"
    /\ mpc' = "sleep"
    /\ UNCHANGED <<cfgvars, mainvars, resvars, queuevars, sysvars, simulation_running,
                   mi, event, pop_result, histvars>>

\* manager.c lines 128-133: the display is due.
display_begin ==
    /\ mpc = "display"
    /\ mpc' = "display_lock"
    /\ mi' = 1
    /\ UNCHANGED <<cfgvars, mainvars, resvars, queuevars, sysvars, simulation_running,
                   event, pop_result, histvars>>

\* manager.c lines 134-135.
display_lock ==
    /\ mpc = "display_lock"
    /\ res_mutex[resource_array[mi]] = UNLOCKED
    /\ res_mutex' = [res_mutex EXCEPT ![resource_array[mi]] = MANAGER]
    /\ mpc' = "display_unlock"
    /\ UNCHANGED <<cfgvars, mainvars, amount, queuevars, sysvars, simulation_running,
                   mi, event, pop_result, histvars>>

\* manager.c lines 136-153: print the Resource and unlock; after the last
\* Resource print the Systems' statuses.
display_unlock ==
    /\ mpc = "display_unlock"
    /\ res_mutex' = [res_mutex EXCEPT ![resource_array[mi]] = UNLOCKED]
    /\ IF mi < Len(resource_array)
       THEN /\ mi' = mi + 1
            /\ mpc' = "display_lock"
       ELSE /\ mi' = 1
            /\ mpc' = "sleep"
    /\ UNCHANGED <<cfgvars, mainvars, amount, queuevars, sysvars, simulation_running,
                   event, pop_result, histvars>>

\* manager.c lines 88-89 and 61: the pause of the control loop ends and the
\* loop is tested again.
manager_run_sleep ==
    /\ mpc = "sleep"
    /\ mpc' = WhileLoop
    /\ UNCHANGED <<cfgvars, mainvars, resvars, queuevars, sysvars, simulation_running,
                   mi, event, pop_result, histvars>>

\* manager.c lines 92-95: pthread_join returns once the worker has returned.
manager_run_join_nowait ==
    /\ mpc = "join"
    /\ IF mi < system_array_size
       THEN /\ mi' = mi + 1
            /\ UNCHANGED mpc
       ELSE /\ mi' = 1
            /\ mpc' = "returned"
    /\ UNCHANGED <<cfgvars, mainvars, resvars, queuevars, sysvars, simulation_running,
                   event, pop_result, histvars>>

manager_run_join ==
    /\ mpc = "join"
    /\ pc[system_array[mi]] = "done"
    /\ IF mi < system_array_size
       THEN /\ mi' = mi + 1
            /\ UNCHANGED mpc
       ELSE /\ mi' = 1
            /\ mpc' = "returned"
    /\ UNCHANGED <<cfgvars, mainvars, resvars, queuevars, sysvars, simulation_running,
                   event, pop_result, histvars>>

(***************************************************************************)
(* main after manager_run has returned: manager_clean and the return.      *)
(***************************************************************************)
\* manager.c line 32 and system.c lines 234-241, 57-66: every System of the
\* array is destroyed and freed.
system_array_clean ==
    /\ mpc = "returned"
    /\ destroyed' = destroyed \cup {"system_array"}
    /\ mpc' = "clean_resources"
    /\ UNCHANGED <<cfgvars, resvars, queuevars, sysvars, simulation_running,
                   mi, event, pop_result, exit_status, histvars>>

\* manager.c line 33 and resource.c lines 118-127, 80-89: the mutex of every
\* Resource is destroyed and the Resource freed.
resource_array_clean ==
    /\ mpc = "clean_resources"
    /\ res_mutex' = [r \in Resources |-> DESTROYED]
    /\ destroyed' = destroyed \cup {"resource_array"}
    /\ mpc' = "clean_queue"
    /\ UNCHANGED <<cfgvars, amount, queuevars, sysvars, simulation_running,
                   mi, event, pop_result, exit_status, histvars>>

\* manager.c line 34 and event.c lines 49-63: the nodes still linked are
\* freed unpopped and the queue's mutex is destroyed.
event_queue_clean ==
    /\ mpc = "clean_queue"
    /\ head' = <<>>
    /\ size' = 0
    /\ queue_mutex' = DESTROYED
    /\ destroyed' = destroyed \cup {"event_queue"}
    /\ mpc' = "return"
    /\ UNCHANGED <<cfgvars, resvars, sysvars, simulation_running, mi, event,
                   pop_result, exit_status, histvars>>

\* main.c line 33: return 0.
main_return ==
    /\ mpc = "return"
    /\ exit_status' = 0
    /\ mpc' = "exited"
    /\ UNCHANGED <<cfgvars, resvars, queuevars, sysvars, simulation_running,
                   mi, event, pop_result, destroyed, histvars>>

(***************************************************************************)
(* The program.                                                            *)
(***************************************************************************)
Worker(s) ==
    \/ system_thread_func(s)
    \/ system_convert_lock(s)
    \/ system_convert_cs(s)
    \/ system_convert_unlock(s)
    \/ system_simulate_process_time(s)
    \/ system_convert_produce(s)
    \/ system_store_lock(s)
    \/ system_store_cs(s)
    \/ system_store_unlock(s)
    \/ system_run_event_high(s)
    \/ system_run_event_low(s)
    \/ event_queue_push_lock(s)
    \/ event_queue_push_insert(s)
    \/ event_queue_push_size(s)
    \/ event_queue_push_unlock(s)
    \/ system_run_wait(s)

Manager ==
    \/ manager_run_validate
    \/ manager_run_create
    \/ event_queue_pop_lock
    \/ event_queue_pop_empty
    \/ event_queue_pop_remove
    \/ event_queue_pop_size
    \/ event_queue_pop_unlock
    \/ manager_run_handle
    \/ manager_run_terminate
    \/ display_skip
    \/ display_begin
    \/ display_lock
    \/ display_unlock
    \/ manager_run_sleep
    \/ manager_run_join
    \/ system_array_clean
    \/ resource_array_clean
    \/ event_queue_clean
    \/ main_return

Next == Manager \/ \E s \in Systems : Worker(s)

Spec == Init /\ [][Next]_vars

\* The threads are scheduled fairly: a thread that can take a step (its
\* sleep has ended, or the mutex it waits for stays free) takes one.
Fairness ==
    /\ WF_vars(Manager)
    /\ \A s \in Systems : WF_vars(Worker(s))

SpecFair == Spec /\ Fairness

(***************************************************************************)
(* The EventQueue on its own: every System thread pushes events of any     *)
(* priority, one after the other, while the manager thread pops.           *)
(***************************************************************************)
\* A caller of event_queue_push with an event of its choice.
QueueProducer(s) ==
    /\ pc[s] = "wait"
    /\ Room(s, MaxQueueAlone)
    /\ \E p \in 1..MaxPrio :
           sys_event' = [sys_event EXCEPT ![s] =
                            event_init(NULL, NULL, STATUS_OK, p, 0)]
    /\ pc' = [pc EXCEPT ![s] = "push_lock"]
    /\ UNCHANGED <<cfgvars, mainvars, resvars, queuevars, status, amount_stored,
                   result_status, mgrvars, histvars>>

\* A caller of event_queue_pop.
QueueConsumer ==
    /\ mpc \in {"display", "handle"}
    /\ mpc' = "pop_lock"
    /\ UNCHANGED <<cfgvars, mainvars, resvars, queuevars, sysvars, simulation_running,
                   mi, event, pop_result, histvars>>

InitQueue ==
    /\ InitOf(ConfigSource)
    /\ amount = [r \in Resources |-> 0]
    /\ pc = [s \in Systems |-> IF s \in Launched THEN "wait" ELSE "not_started"]
    /\ mpc = "display"

NextQueue ==
    \/ \E s \in Launched :
           \/ QueueProducer(s)
           \/ event_queue_push_lock(s)
           \/ event_queue_push_insert(s)
           \/ event_queue_push_size(s)
           \/ event_queue_push_unlock(s)
    \/ QueueConsumer
    \/ event_queue_pop_lock
    \/ event_queue_pop_empty
    \/ event_queue_pop_remove
    \/ event_queue_pop_size
    \/ event_queue_pop_unlock

SpecQueue == InitQueue /\ [][NextQueue]_vars


(***************************************************************************)
(* The claims about the EventQueue, checked under SpecQueue.               *)
(***************************************************************************)
\* The manager has unlinked the head and still holds the queue's mutex: the
\* moment of a successful pop.
JustPopped == mpc \in {"pop_size", "pop_unlock"}

\* C1: the list is sorted by non-increasing priority in every reachable
\* state, and the event a successful pop returns has a priority at least
\* that of every event still in the queue at that moment.
C1_PriorityOrder ==
    /\ \A i \in 1..Len(head) : \A j \in 1..Len(head) :
           i < j => head[i].priority >= head[j].priority
    /\ JustPopped =>
           \A i \in 1..Len(head) : event.priority >= head[i].priority

\* A pop has returned the most urgent of three events of three priorities
\* while a System thread is on its way to push another.
C1_Witness ==
    /\ mpc = "pop_size"
    /\ Len(head) = 2
    /\ event.priority > head[1].priority
    /\ head[1].priority > head[2].priority
    /\ head[1].seq < head[2].seq
    /\ \E s \in Systems : pc[s] = "push_lock"

\* C2: among events of equal priority the one pushed first is nearer the
\* head, and the event a pop returns was pushed before every event of its
\* priority still in the queue: first in, first out per priority.
C2_FifoPerPriority ==
    /\ \A i \in 1..Len(head) : \A j \in 1..Len(head) :
           (i < j /\ head[i].priority = head[j].priority)
               => head[i].seq < head[j].seq
    /\ JustPopped =>
           \A i \in 1..Len(head) :
               head[i].priority = event.priority => event.seq < head[i].seq

\* Priorities 3, 1, 3 were pushed in that order; the pop has returned the
\* first 3 and the second 3 is now ahead of the 1 pushed before it.
C2_Witness ==
    /\ mpc = "pop_size"
    /\ event.priority = 3 /\ event.seq = 1
    /\ Len(head) = 2
    /\ head[1].priority = 3 /\ head[1].seq = 3
    /\ head[2].priority = 1 /\ head[2].seq = 2

\* C3: whenever no thread holds the queue's mutex, size is the number of
\* linked nodes and the number of completed pushes minus the number of pops
\* that returned an event, and the linked nodes are exactly the events
\* pushed and not yet popped, each once.
C3_SizeIsNodeCount ==
    queue_mutex = UNLOCKED =>
        /\ size = Len(head)
        /\ size = pending
        /\ {head[i].seq : i \in 1..Len(head)} = 1..Len(head)

\* Two events are queued after a pop has returned one, both System threads
\* being between two pushes.
C3_Witness ==
    /\ queue_mutex = UNLOCKED
    /\ size = 2
    /\ pop_result = 1
    /\ mpc = "pop_lock"
    /\ \A s \in Launched : pc[s] = "wait"

\* C4: a pop that finds the queue empty returns 0 at once (it waits for no
\* event), with the mutex released and head, size and the caller's event
\* as they were.
C4_PopEmpty ==
    [][(mpc = "pop_head" /\ head = <<>>) =>
          /\ ENABLED event_queue_pop_empty
          /\ mpc' # mpc =>
                /\ pop_result' = 0
                /\ queue_mutex' = UNLOCKED
                /\ head' = head /\ size' = size /\ event' = event]_vars

\* A pop has returned an event, and the pop after it found the queue empty
\* and left that event in place.
C4_Witness ==
    /\ mpc = "display"
    /\ pop_result = 0
    /\ event # NoEvent
    /\ head = <<>>
    /\ queue_mutex = UNLOCKED


(***************************************************************************)
(* The claims about the Resource ledger and the workers, checked under     *)
(* Spec.                                                                   *)
(***************************************************************************)
Min(a, b) == IF a <= b THEN a ELSE b

\* The units buffered in the Systems of set ss that produce Resource r.
RECURSIVE BufferedIn(_, _)
BufferedIn(ss, r) ==
    IF ss = {} THEN 0
    ELSE LET s == CHOOSE x \in ss : TRUE
         IN  (IF produced[s].resource = r THEN amount_stored[s] ELSE 0)
                 + BufferedIn(ss \ {s}, r)

\* C5: the amount of every Resource stays within 0..max_capacity, whatever
\* the workers' consume and store steps and their interleaving.
C5_AmountInBounds ==
    \A r \in Resources : 0 <= amount[r] /\ amount[r] <= max_capacity[r]

\* One worker has just taken the last units of a Resource while another has
\* just filled a Resource to its capacity and kept a leftover.
C5_Witness ==
    \E s \in Systems : \E t \in Systems :
        /\ pc[s] = "store_unlock"
        /\ amount_stored[s] > 0
        /\ amount[produced[s].resource] = max_capacity[produced[s].resource]
        /\ pc[t] = "convert_unlock"
        /\ result_status[t] = STATUS_OK
        /\ amount[consumed[t].resource] = 0

\* The consume step's arithmetic, for all cur and a in 0..MaxAmount.
ConsumeArithmetic ==
    \A cur \in 0..MaxAmount : \A a \in 0..MaxAmount :
        LET c == Consume(cur, a)
        IN  /\ cur >= a => c.amount = cur - a /\ c.status = STATUS_OK
            /\ cur < a => c.amount = cur
            /\ cur = 0 /\ cur < a => c.status = STATUS_EMPTY
            /\ 0 < cur /\ cur < a => c.status = STATUS_INSUFFICIENT
            /\ cur = 0 => c.status # STATUS_INSUFFICIENT

\* C6: the consume step for a units on a Resource holding cur: with
\* cur >= a it takes a and reports STATUS_OK; otherwise it takes nothing and
\* reports STATUS_EMPTY when cur = 0, STATUS_INSUFFICIENT when 0 < cur < a.
\* On an empty Resource it never reports STATUS_INSUFFICIENT.  This holds of
\* every consume step a worker takes, and of the step's arithmetic for all
\* cur and a in 0..MaxAmount.
C6_ConsumeStep ==
    [][/\ \A s \in Systems :
            (pc[s] = "convert_cs" /\ pc'[s] # pc[s]) =>
                LET r == consumed[s].resource
                    a == consumed[s].amount
                    cur == amount[r]
                IN  /\ r # NULL
                    /\ cur >= a =>
                          amount'[r] = cur - a /\ result_status'[s] = STATUS_OK
                    /\ cur < a => amount'[r] = cur
                    /\ cur = 0 /\ cur < a => result_status'[s] = STATUS_EMPTY
                    /\ 0 < cur /\ cur < a =>
                          result_status'[s] = STATUS_INSUFFICIENT
                    /\ cur = 0 => result_status'[s] # STATUS_INSUFFICIENT
                    /\ \A q \in Resources \ {r} : amount'[q] = amount[q]
       /\ ConsumeArithmetic]_vars

\* One worker has found its Resource empty while another, which found the
\* same Resource short of what it needs, is about to report that.
C6_Witness ==
    \E s \in Systems : \E t \in Systems :
        /\ pc[s] = "convert_unlock"
        /\ result_status[s] = STATUS_EMPTY
        /\ amount[consumed[s].resource] = 0
        /\ pc[t] = "event_init_high"
        /\ result_status[t] = STATUS_INSUFFICIENT
        /\ consumed[t].resource = consumed[s].resource

\* The spec's scenario: 25 units into a Resource holding 4990 of 5000.
StoreExample ==
    Store(4990, 5000, 25) = [amount |-> 5000, amount_stored |-> 15]

\* C7: the store step with b > 0 units buffered moves
\* min(b, max_capacity - amount) units from the buffer into the Resource, and
\* system_store_resources then reports STATUS_OK iff the buffer is empty and
\* STATUS_CAPACITY otherwise; 25 units into 4990 of 5000 leave 5000 and 15.
C7_StoreStep ==
    [][/\ StoreExample
       /\ \A s \in Systems :
            /\ (pc[s] = "store_cs" /\ pc'[s] # pc[s]) =>
                  LET r == produced[s].resource
                      b == amount_stored[s]
                      moved == Min(b, max_capacity[r] - amount[r])
                  IN  /\ r # NULL /\ b > 0
                      /\ amount'[r] = amount[r] + moved
                      /\ amount_stored'[s] = b - moved
                      /\ \A q \in Resources \ {r} : amount'[q] = amount[q]
            /\ (pc[s] = "store_unlock" /\ pc'[s] # pc[s]) =>
                  /\ amount_stored'[s] = amount_stored[s]
                  /\ result_status'[s] = STATUS_OK <=> amount_stored[s] = 0
                  /\ result_status'[s] = STATUS_CAPACITY <=> amount_stored[s] # 0
                  /\ amount_stored[s] # 0 <=> pc'[s] = "event_init_low"]_vars

\* A store has filled the Resource with part of the buffer: the rest, less
\* than one production, is kept and STATUS_CAPACITY is about to be reported.
C7_Witness ==
    \E s \in Systems :
        /\ pc[s] = "event_init_low"
        /\ result_status[s] = STATUS_CAPACITY
        /\ 0 < amount_stored[s] /\ amount_stored[s] < produced[s].amount
        /\ amount[produced[s].resource] = max_capacity[produced[s].resource]

\* Thread th is inside a critical section on Resource r: between the lock
\* and the unlock of system_convert, of system_store_resources or of
\* display_simulation_state.
InCriticalSection(th, r) ==
    IF th = MANAGER
    THEN mpc = "display_unlock" /\ resource_array[mi] = r
    ELSE \/ pc[th] \in {"convert_cs", "convert_unlock"}
            /\ consumed[th].resource = r
         \/ pc[th] \in {"store_cs", "store_unlock"}
            /\ produced[th].resource = r

MutualExclusion ==
    \A r \in Resources :
        \A th \in Systems \cup {MANAGER} :
            InCriticalSection(th, r) =>
                /\ res_mutex[r] = th
                /\ \A other \in (Systems \cup {MANAGER}) \ {th} :
                       ~InCriticalSection(other, r)

\* C8: at most one thread at a time is inside a critical section on a
\* Resource, that thread holds the Resource's mutex, and every step that
\* changes the amount is taken by the System thread holding the mutex.
\* (Mutual exclusion is stated of the state each step leads to: initially
\* no worker has started.)
C8_ResourceMutex ==
    [][/\ MutualExclusion'
       /\ \A r \in Resources :
            amount'[r] # amount[r] =>
                \E s \in Systems :
                    /\ res_mutex[r] = s
                    /\ pc[s] \in {"convert_cs", "store_cs"}
                    /\ pc'[s] # pc[s]]_vars

\* A producer is inside its store on a Resource while the consumer of that
\* Resource waits for the mutex.
C8_Witness ==
    \E s \in Systems : \E t \in Systems \ {s} :
        /\ pc[s] = "store_cs"
        /\ pc[t] = "convert_lock"
        /\ consumed[t].resource = produced[s].resource
        /\ res_mutex[produced[s].resource] = s

\* C9: for every Resource, its amount plus the units buffered by its
\* producers never exceeds its initial amount plus what successful
\* conversions produced minus what successful consumes removed.
C9_Conservation ==
    \A r \in Resources : amount[r] + BufferedIn(Systems, r) <= ledger[r]

\* A producer keeps a leftover of a Resource that another System has just
\* consumed from.
C9_Witness ==
    \E s \in Systems : \E t \in Systems \ {s} :
        /\ pc[s] = "event_init_low"
        /\ amount_stored[s] > 0
        /\ consumed[t].resource = produced[s].resource
        /\ pc[t] = "process_sleep"

\* C10: once the status of a System is TERMINATE it stays so; its worker,
\* at the top of its loop, only returns; an iteration still running is the
\* one that was in flight when the status was set, and only that iteration
\* changes a Resource or the queue; a worker that has returned does nothing.
C10_CooperativeCancel ==
    [][\A s \in Systems :
          /\ status[s] = TERMINATE => status'[s] = TERMINATE
          /\ (status[s] = TERMINATE /\ pc[s] = "loop") =>
                pc'[s] \in {"loop", "done"}
          /\ (status'[s] = TERMINATE /\ InFlight(pc'[s])) => grace'[s]
          /\ (status[s] = TERMINATE /\ pc'[s] # pc[s]
                  /\ (amount' # amount \/ head' # head)) => grace[s]
          /\ pc[s] = "done" =>
                /\ status[s] = TERMINATE
                /\ pc'[s] = "done"
                /\ amount_stored'[s] = amount_stored[s]]_vars

\* One worker has returned after its status was set; the other, whose
\* status is set too, is finishing the iteration that was in flight and
\* links its event into the queue.
C10_Witness ==
    \E s \in Systems : \E t \in Systems :
        /\ status[s] = TERMINATE /\ pc[s] = "done"
        /\ status[t] = TERMINATE /\ pc[t] = "push_insert" /\ grace[t]


(***************************************************************************)
(* The claims about the Manager's control loop, the locks and the          *)
(* teardown, checked under Spec, and under SpecFair where a claim says     *)
(* that something eventually happens.                                      *)
(***************************************************************************)
\* manager_run has returned to main.
ManagerReturned ==
    mpc \in {"returned", "clean_resources", "clean_queue", "return", "exited"}

\* C11: under fair scheduling, once simulation_running is false every
\* worker leaves its loop and returns, every pthread_join returns and
\* manager_run returns.
C11_ShutdownLiveness ==
    (~simulation_running) ~>
        (ManagerReturned /\ \A s \in Launched : pc[s] = "done")

\* manager_run has returned after joining both workers, each of which
\* pushed a last event that nobody popped.
C11_Witness ==
    /\ mpc = "returned"
    /\ system_array_size > 0
    /\ \A s \in Launched : pc[s] = "done"
    /\ \A s \in Launched : \E i \in 1..Len(head) : head[i].system = s

\* C12: handling a popped event with status STATUS_EMPTY on Oxygen or Fuel,
\* the manager clears simulation_running and goes on to set the statuses;
\* it sets the status of every System to TERMINATE before it joins: whenever
\* the manager is at a pthread_join, simulation_running is false and the
\* status of every System is TERMINATE.
C12_CriticalPolicy ==
    [][/\ (mpc = "handle" /\ Critical(event) /\ mpc' # mpc) =>
              /\ ~simulation_running'
              /\ mpc' = "terminate"
       /\ (mpc = "terminate" /\ mpc' # mpc) =>
              \A s \in Launched : status'[s] = TERMINATE
       /\ mpc' = "join" =>
              /\ ~simulation_running'
              /\ \A s \in Launched : status'[s] = TERMINATE]_vars

\* The manager waits in pthread_join for a worker that is still inside the
\* iteration it was running when its status was set.
C12_Witness ==
    /\ mpc = "join"
    /\ \A s \in Launched : status[s] = TERMINATE
    /\ \E s \in Launched : InFlight(pc[s]) /\ grace[s]

\* The event reports that its Resource is scarce: a consume failed.
Scarcity(e) == e.status \in {STATUS_EMPTY, STATUS_INSUFFICIENT}

\* C13: handling a popped event that is not a critical-resource termination
\* event, the manager sets the status of every System that produces the
\* event's Resource to FAST if the event signals scarcity and to SLOW
\* otherwise.
C13_Throttling ==
    [][(mpc = "handle" /\ ~Critical(event) /\ mpc' # mpc) =>
          \A s \in Launched :
              produced[s].resource = event.resource =>
                  status'[s] = IF Scarcity(event) THEN FAST ELSE SLOW]_vars

\* The arrival ranks of the nodes linked in list h.
Linked(h) == {h[i].seq : i \in 1..Len(h)}

\* The manager is inside event_queue_pop.
Popping == mpc \in {"pop_lock", "pop_head", "pop_size", "pop_unlock"}

\* C14 as claimed: every event a System pushed is popped exactly once by
\* the control loop: never more pops than pushes, and when manager_run has
\* returned (every worker is joined: the run is over) every event pushed
\* has been popped.
C14_ConsumedExactlyOnce ==
    /\ pending >= 0
    /\ mpc = "returned" => pending = 0 /\ head = <<>>

\* C14 as amended: an event is popped at most once.  A pop returns a linked
\* node and unlinks it, so the event it returns is in the queue no more; no
\* node is linked twice; nodes leave the list only by a pop or, unpopped, by
\* event_queue_clean; and once simulation_running is false the manager pops
\* no more, so what is queued then is never popped.
C14_ConsumedAtMostOnce ==
    [][/\ (mpc = "pop_head" /\ mpc' = "pop_size") =>
              /\ event' = head[1]
              /\ head' = Tail(head)
              /\ event'.seq \notin Linked(head')
       /\ Cardinality(Linked(head')) = Len(head')
       /\ pending' >= 0
       /\ Len(head') < Len(head) =>
              \/ mpc = "pop_head" /\ Len(head') = Len(head) - 1
              \/ mpc = "clean_queue"
       /\ ~simulation_running' => ~Popping']_vars

\* manager_run has returned after popping events, and events that both
\* workers pushed are still linked.
C14_Witness ==
    /\ mpc = "returned"
    /\ pending > 1
    /\ \A s \in Launched : \E i \in 1..Len(head) : head[i].system = s
    /\ \E i \in 1..Len(head) : head[i].priority = PRIORITY_LOW

\* C15: every event with status STATUS_EMPTY that a System pushes carries
\* amount 0, the amount the failed consume observed: both the event a
\* worker is pushing and every event linked in the queue.
C15_EmptyEventAmountZero ==
    /\ \A s \in Launched :
           (pc[s] \in {"push_lock", "push_insert", "push_size", "push_unlock"}
                /\ sys_event[s].status = STATUS_EMPTY)
               => sys_event[s].amount = 0
    /\ \A i \in 1..Len(head) :
           head[i].status = STATUS_EMPTY => head[i].amount = 0

\* The threads of the program.
Threads == Launched \cup {MANAGER}

\* The mutexes thread th holds.
HeldBy(th) ==
    {r \in Resources : res_mutex[r] = th}
        \cup (IF queue_mutex = th THEN {"event_queue"} ELSE {})

\* The mutex thread th is about to lock (it is at a pthread_mutex_lock),
\* NULL when it is not at one.
Acquiring(th) ==
    IF th = MANAGER
    THEN CASE mpc = "pop_lock" -> "event_queue"
           [] mpc = "display_lock" -> resource_array[mi]
           [] OTHER -> NULL
    ELSE CASE pc[th] = "convert_lock" -> consumed[th].resource
           [] pc[th] = "store_lock" -> produced[th].resource
           [] pc[th] = "push_lock" -> "event_queue"
           [] OTHER -> NULL

\* The owner of mutex m, UNLOCKED when it is free.
Owner(m) == IF m = "event_queue" THEN queue_mutex ELSE res_mutex[m]

\* C16: no thread ever holds two mutexes; a thread at a pthread_mutex_lock
\* holds none (neither a Resource's nor the queue's); and no thread waits
\* for a mutex whose owner is itself waiting for a mutex, so no reachable
\* state has threads waiting on each other's locks.
C16_NoNestedLocks ==
    \A th \in Threads :
        /\ Cardinality(HeldBy(th)) <= 1
        /\ Acquiring(th) # NULL =>
               /\ HeldBy(th) = {}
               /\ Owner(Acquiring(th)) \in Threads =>
                      Acquiring(Owner(Acquiring(th))) = NULL

\* A worker and the manager both wait for the mutex of a Resource that the
\* other worker holds inside its consume.
C16_Witness ==
    \E s \in Launched : \E t \in Launched \ {s} :
        /\ pc[s] = "store_lock"
        /\ Owner(Acquiring(s)) = t
        /\ pc[t] = "convert_cs"
        /\ mpc = "display_lock"
        /\ Acquiring(MANAGER) = Acquiring(s)

\* Thread th is in a usleep: the processing time of a conversion or the
\* pause after a push for a worker, the pause of the control loop for the
\* manager.
Sleeping(th) ==
    IF th = MANAGER THEN mpc = "sleep"
    ELSE pc[th] \in {"process_sleep", "wait"}

\* C17: a thread that is sleeping holds no mutex, neither a Resource's nor
\* the queue's.
C17_NoLockAcrossSleep ==
    \A th \in Threads : Sleeping(th) => HeldBy(th) = {}

\* All three threads sleep at once: a worker after a successful consume,
\* the other after pushing an event, the manager between two passes.
C17_Witness ==
    /\ mpc = "sleep"
    /\ \E s \in Launched : \E t \in Launched :
           /\ pc[s] = "process_sleep" /\ consumed[s].resource # NULL
           /\ pc[t] = "wait"
    /\ \A th \in Threads : HeldBy(th) = {}

\* C18: manager_clean destroys the Systems, the Resources and the queue
\* only after manager_run has returned, which it does only after every
\* worker has returned and been joined; and once anything is destroyed no
\* worker takes a step: none reads or writes a System, a Resource or the
\* queue after its destruction.
C18_TeardownOrder ==
    [][/\ destroyed' # {} => ManagerReturned'
       /\ ManagerReturned' => \A s \in Launched : pc'[s] = "done"
       /\ destroyed # {} =>
              /\ sysvars' = sysvars
              /\ amount' = amount
              /\ head' # head => mpc = "clean_queue"]_vars

\* main has returned after manager_clean: both workers had been joined, and
\* event_queue_clean freed events nobody popped.
C18_Witness ==
    /\ mpc = "exited"
    /\ destroyed = {"system_array", "resource_array", "event_queue"}
    /\ Launched # {}
    /\ \A s \in Launched : pc[s] = "done"
    /\ pending > 0 /\ head = <<>>

\* C19: a System that consumes nothing (null consumed Resource) never takes
\* the consume path, its conversion always reports STATUS_OK and it never
\* pushes a PRIORITY_HIGH event; a System that produces nothing (null
\* produced Resource) has amount_stored = 0 after every conversion, never
\* takes the store path and never pushes a STATUS_CAPACITY event; and no
\* null Resource is dereferenced: no thread locks or reads a null Resource,
\* and every event built or queued names a Resource and a System.
C19_NullNeverFails ==
    /\ \A s \in Launched :
           /\ consumed[s].resource = NULL =>
                  /\ pc[s] \notin {"convert_lock", "convert_cs", "convert_unlock",
                                   "event_init_high"}
                  /\ result_status[s] \notin {STATUS_EMPTY, STATUS_INSUFFICIENT}
                  /\ sys_event[s].priority # PRIORITY_HIGH
                  /\ \A i \in 1..Len(head) :
                         head[i].system = s => head[i].priority # PRIORITY_HIGH
           /\ produced[s].resource = NULL =>
                  /\ amount_stored[s] = 0
                  /\ pc[s] \notin {"store_lock", "store_cs", "store_unlock",
                                   "event_init_low"}
                  /\ result_status[s] # STATUS_CAPACITY
                  /\ sys_event[s].status # STATUS_CAPACITY
                  /\ \A i \in 1..Len(head) :
                         head[i].system = s => head[i].status # STATUS_CAPACITY
           /\ pc[s] \in {"convert_lock", "convert_cs", "convert_unlock",
                          "event_init_high"} => consumed[s].resource \in Resources
           /\ pc[s] \in {"store_lock", "store_cs", "store_unlock",
                          "event_init_low"} => produced[s].resource \in Resources
           /\ sys_event[s] # NoEvent =>
                  sys_event[s].resource \in Resources /\ sys_event[s].system = s
    /\ \A i \in 1..Len(head) :
           head[i].resource \in Resources /\ head[i].system \in Launched
    /\ mpc \in {"pop_size", "pop_unlock", "handle"} =>
           event.resource \in Resources /\ event.system \in Launched

\* A System that consumes nothing has converted and holds its product in
\* its buffer, while a System that produces nothing is in the processing
\* time of a conversion whose consume succeeded.
C19_Witness ==
    \E s \in Launched : \E t \in Launched :
        /\ consumed[s].resource = NULL
        /\ pc[s] = "store_lock"
        /\ amount_stored[s] = produced[s].amount /\ amount_stored[s] > 0
        /\ produced[t].resource = NULL
        /\ pc[t] = "process_sleep"
        /\ result_status[t] = STATUS_OK /\ amount_stored[t] = 0

\* The manager is in its control loop or joining.
InControlLoop ==
    mpc \in {"pop_lock", "pop_head", "pop_size", "pop_unlock", "handle",
             "terminate", "display", "display_lock", "display_unlock",
             "sleep", "join"}

\* C20: with an empty System array the run is aborted as a fatal error: no
\* worker is launched, the control loop is never entered, and the process
\* does not finish as a normal successful run (main does not return 0).
C20_EmptyIsFatal ==
    system_array_size = 0 =>
        /\ \A s \in Systems : pc[s] = "not_started"
        /\ ~InControlLoop
        /\ ~(mpc = "exited" /\ exit_status = 0)

\* system.c line 46: the mutex of each System.  system_create initialises
\* it and system_destroy destroys it; no statement of the program locks it,
\* so it is unlocked in every state.
system_mutex == [s \in Systems |-> UNLOCKED]

\* The field status of a System is a plain enum: reading or writing it is
\* an ordinary load or store of an int, not an atomic operation.
AtomicStatus == FALSE

\* manager.c line 80: thread th is at the statement that writes the status
\* of System s.
WritesStatus(th, s) ==
    /\ th = MANAGER
    /\ mpc = "terminate"
    /\ system_array[mi] = s

\* manager.c line 107, system.c line 161: thread th is at a statement that
\* reads the status of System s, the test of the worker's loop or the
\* switch of the processing time.
ReadsStatus(th, s) ==
    /\ th = s
    /\ pc[s] \in {"loop", "process_time"}

\* The access thread th is about to make to the status of s is
\* synchronized: atomic, or made while holding the mutex of s.
Synchronized(th, s) == AtomicStatus \/ system_mutex[s] = th

\* C21: every access to the status of a System by the manager (the write of
\* TERMINATE) or by its worker (the reads of the loop test and of the
\* processing time) is atomic or made under the System's mutex, so no state
\* has the manager about to write a status that the worker is about to read
\* with either access unsynchronized.
C21_StatusSynchronized ==
    \A s \in Launched :
        WritesStatus(MANAGER, s) /\ ReadsStatus(s, s) =>
            Synchronized(MANAGER, s) /\ Synchronized(s, s)

\* The worker of s is inside system_convert: taking or holding the lock of
\* the consumed Resource, or in the processing time that ends in production.
Converting(s) ==
    pc[s] \in {"convert_lock", "convert_cs", "convert_unlock", "process_time",
               "process_sleep"}

\* C22: a System is inside a conversion only with an empty buffer, so it
\* consumes only when amount_stored is 0; with a leftover in its buffer it
\* leaves the top of its loop only to store (or to end); and its buffer
\* grows only from 0 and, once filled, changes only by a store that shrinks
\* it, so no production is added on top of or overwrites a leftover.
C22_TwoPhase ==
    [][\A s \in Launched :
           /\ Converting(s) \/ Converting(s)' => amount_stored[s] = 0
           /\ pc[s] = "convert_cs" /\ amount' # amount => amount_stored[s] = 0
           /\ amount_stored[s] > 0 /\ pc[s] = "loop" /\ pc'[s] # "loop" =>
                  pc'[s] \in {"store_lock", "done"}
           /\ amount_stored'[s] > amount_stored[s] => amount_stored[s] = 0
           /\ amount_stored[s] > 0 /\ amount_stored'[s] # amount_stored[s] =>
                  /\ pc[s] = "store_cs"
                  /\ amount_stored'[s] < amount_stored[s]]_vars

\* A System retries storing a leftover, part of what it produced, while the
\* Resource it consumes holds enough for another consume.
C22_Witness ==
    \E s \in Launched :
        /\ pc[s] = "store_lock"
        /\ sys_event[s] = NoEvent
        /\ 0 < amount_stored[s] /\ amount_stored[s] < produced[s].amount
        /\ consumed[s].resource # NULL
        /\ amount[consumed[s].resource] >= consumed[s].amount

\* C23: the buffer of every System holds between 0 and produced.amount
\* units, and holds nothing when the System produces no Resource.
C23_BufferBounds ==
    \A s \in Systems :
        /\ 0 <= amount_stored[s]
        /\ amount_stored[s] <= produced[s].amount
        /\ produced[s].resource = NULL => amount_stored[s] = 0

\* A System found no room at all and keeps a whole production in its
\* buffer, another keeps part of one after a partial store, or produces
\* nothing and has just consumed.
C23_Witness ==
    \E s \in Launched : \E t \in Launched \ {s} :
        /\ pc[s] = "event_init_low"
        /\ amount_stored[s] = produced[s].amount /\ amount_stored[s] > 0
        /\ \/ /\ pc[t] = "event_init_low"
              /\ 0 < amount_stored[t] /\ amount_stored[t] < produced[t].amount
           \/ /\ produced[t].resource = NULL
              /\ pc[t] = "process_sleep" /\ amount_stored[t] = 0

\* The event that the manager has popped and is about to handle reports
\* Oxygen or Fuel as empty.
PoppedEmptyOxygenOrFuel ==
    /\ mpc = "handle"
    /\ pop_result = 1
    /\ event.status = STATUS_EMPTY
    /\ event.resource \in {"Oxygen", "Fuel"}

\* C24: with at least one System, simulation_running goes from true to
\* false only in the step that handles a popped STATUS_EMPTY event on
\* Oxygen or Fuel; the step that handles any other popped event (an
\* insufficient or a capacity event, or an empty event on another Resource)
\* changes neither simulation_running nor the status of any System.
C24_OnlyCriticalStops ==
    [][system_array_size > 0 =>
           /\ simulation_running /\ ~simulation_running' =>
                  PoppedEmptyOxygenOrFuel
           /\ mpc = "handle" /\ mpc' # "handle" /\ ~PoppedEmptyOxygenOrFuel =>
                  /\ simulation_running' = simulation_running
                  /\ status' = status]_vars

\* The manager has handled a popped event and goes on popping with the
\* simulation running and every System at STANDARD, while the queue is empty
\* again and the System that reported a Resource other than Oxygen and Fuel
\* as empty is still in the pause that follows its push.
C24_Witness ==
    /\ mpc = "pop_lock"
    /\ pop_result = 1
    /\ simulation_running
    /\ head = <<>>
    /\ \A s \in Launched : status[s] = STANDARD
    /\ \E s \in Launched :
           /\ pc[s] = "wait"
           /\ result_status[s] = STATUS_EMPTY
           /\ consumed[s].resource \notin {"Oxygen", "Fuel"}

(***************************************************************************)
(* The shipped configuration: the four Systems and four Resources of       *)
(* load_data.  Four workers and the manager interleaved statement by       *)
(* statement are beyond what can be explored, so in SpecShipped a thread   *)
(* that is running keeps running until it reaches a scheduling point: a    *)
(* usleep, a pthread_create or pthread_join, the manager's next call of    *)
(* event_queue_pop, or a push held back by the model's bound on the queue. *)
(* The steps are those of Spec; only the places where the threads switch   *)
(* are fewer.                                                              *)
(***************************************************************************)
\* main.c lines 19-27: manager_init and load_data have run.
InitShipped ==
    /\ InitOf(ConfigShipped)
    /\ amount = ShippedAmount
    /\ pc = [s \in Systems |-> "not_started"]
    /\ mpc = "start"

\* Thread th is at a scheduling point.  A worker: not yet created, in the
\* usleep of system_simulate_process_time (system.c line 173) or of
\* system_run (lines 93, 105), about to build an event the queue may have
\* no room for, or returned.  The manager: anywhere but inside
\* event_queue_pop, the handling of the popped event and
\* display_simulation_state.
AtSchedulingPoint(th) ==
    IF th = MANAGER
    THEN mpc \notin {"pop_head", "pop_size", "pop_unlock", "handle",
                     "terminate", "display", "display_lock", "display_unlock"}
    ELSE pc[th] \in {"not_started", "process_sleep", "event_init_high",
                     "event_init_low", "wait", "done"}

\* Thread th may run: every other thread is at a scheduling point.
Scheduled(th) ==
    \A other \in (Systems \cup {MANAGER}) \ {th} : AtSchedulingPoint(other)

ManagerShipped == Manager /\ Scheduled(MANAGER)

WorkerShipped(s) == Worker(s) /\ Scheduled(s)

NextShipped == ManagerShipped \/ \E s \in Systems : WorkerShipped(s)

\* The threads are scheduled fairly: a thread that can run again and again
\* does run.
FairShipped ==
    /\ SF_vars(ManagerShipped)
    /\ \A s \in Systems : SF_vars(WorkerShipped(s))

SpecShipped == InitShipped /\ [][NextShipped]_vars /\ FairShipped

=============================================================================
